---- MODULE Spec2Model ----
(***************************************************************************)
(* The tabular cleaning and profiling tools of the data engineer agent     *)
(* (src/src/agents/data_engineer.py): profile_data, check_missing and      *)
(* clean_data, run against a small file system.                            *)
(*                                                                         *)
(* A CSV file is modelled by its parsed content: a header (the raw column  *)
(* names) and rows of cells.  A cell is empty (read as NaN), a number or a *)
(* text.  Numbers are exact fixed-point values in units of 1/Scale, so     *)
(* that medians and linearly interpolated percentiles of up to MaxPasses   *)
(* successive cleaning passes are computed without rounding (pandas uses   *)
(* float64; the model abstracts from float rounding and takes the decimal  *)
(* text written by to_csv to be read back as the same number).             *)
(***************************************************************************)
EXTENDS Integers, Sequences, FiniteSets, TLC

VARIABLES
    fs,      \* path -> content of the file at that path
    dirs,    \* the directories that exist
    call,    \* the last tool call: its arguments and what it read
    ret,     \* the JSON object the last tool call returned
    raised,  \* TRUE when an exception escaped the last tool call
    disk,    \* concurrent callers: path -> the lines of the file at that path
    pc,      \* concurrent callers: caller -> the step its clean_data is at
    job,     \* concurrent callers: caller -> arguments and locals of its call
    order,   \* concurrent callers: the opens and completed writes, in order
    envFile, \* deploy scripts: the .env file, its lines <<key, value>>
    aws,     \* deploy scripts: IAM roles, Code Interpreters, the Runtime
    host,    \* deploy scripts: what the deploying machine has
    runs,    \* deploy scripts: the scripts run so far and their exit status
    proc,    \* deploy scripts step by step: the running script and its locals
    s3,      \* supervisor: whether S3 is configured, and the bucket's objects
    localFiles, \* supervisor: local path -> content of the file at that path
    tool,    \* supervisor: the specialist tool being called and its locals
    events   \* supervisor: what the current tool call did, in order

toolVars == <<fs, call, ret, raised>>
concVars == <<disk, pc, job, order>>
deployVars == <<envFile, aws, host, runs>>
supVars == <<s3, localFiles, tool, events>>
vars ==
    <<fs, dirs, call, ret, raised, disk, pc, job, order, envFile, aws, host, runs,
      proc, s3, localFiles, tool, events>>

(***************************************************************************)
(* Bounds of the model.                                                    *)
(***************************************************************************)
MaxRows == 2      \* rows of an enumerated input table
MaxRuns == 3      \* deploy scripts run one after another
ScenarioLen == 10 \* rows of the input tables with one repeated row
MaxPasses == 2    \* clean passes applied in a chain to one dataset
RampLen == 102    \* rows of the long single-column input table

(***************************************************************************)
(* The percentiles of step 3, in percent.                                  *)
(***************************************************************************)
QLow == 1
QHigh == 99

Scale == 2 * 100 ^ MaxPasses
Round4Unit == Scale \div 10000

(***************************************************************************)
(* Cells.                                                                  *)
(***************************************************************************)
NaN == [t |-> "nan", n |-> 0, s |-> ""]
Num(v) == [t |-> "num", n |-> v, s |-> ""]
Str(x) == [t |-> "str", n |-> 0, s |-> x]
V(i) == Num(i * Scale)

IsNull(c) == c.t = "nan"

Range(s) == {s[i] : i \in DOMAIN s}

Min2(a, b) == IF a <= b THEN a ELSE b
Max2(a, b) == IF a >= b THEN a ELSE b

(***************************************************************************)
(* Files and paths.                                                        *)
(***************************************************************************)
NoFile == [kind |-> "absent", header |-> <<>>, rows |-> <<>>, gen |-> 0]
Garbage == [kind |-> "garbage", header |-> <<>>, rows |-> <<>>, gen |-> 0]
CsvFile(h, r, g) == [kind |-> "csv", header |-> h, rows |-> r, gen |-> g]

RawPath == [dir |-> "", name |-> "raw.csv"]
OutPath == [dir |-> "out", name |-> "clean.csv"]
Paths == {RawPath, OutPath}

\* os.path.dirname(output_path) if os.path.dirname(output_path) else "."
DirName(p) == IF p.dir # "" THEN p.dir ELSE "."

(***************************************************************************)
(* pd.read_csv: header handling.  Empty names become "Unnamed: <i>", a     *)
(* repeated name gets the suffix ".<k>" with the first k that is free.     *)
(***************************************************************************)
RECURSIVE FreshName(_, _, _)
FreshName(base, k, taken) ==
    LET cand == base \o "." \o ToString(k)
    IN  IF cand \in taken THEN FreshName(base, k + 1, taken) ELSE cand

RECURSIVE DedupFrom(_, _, _)
DedupFrom(hdr, i, out) ==
    IF i > Len(hdr) THEN out
    ELSE LET nm == IF hdr[i] = "" THEN "Unnamed: " \o ToString(i - 1) ELSE hdr[i]
             new == IF nm \in Range(out)
                    THEN FreshName(nm, 1, Range(out) \cup Range(hdr))
                    ELSE nm
         IN  DedupFrom(hdr, i + 1, Append(out, new))

DedupNames(hdr) == DedupFrom(hdr, 1, <<>>)

(***************************************************************************)
(* pd.read_csv: dtype inference.  A column is numeric (int64/float64) when *)
(* the table has rows and no cell of the column is text; a column without  *)
(* any row is object.                                                      *)
(***************************************************************************)
InferNumeric(rows, j) ==
    /\ Len(rows) > 0
    /\ \A i \in 1..Len(rows) : rows[i][j].t # "str"

\* The outcome of pd.read_csv(file_path): an exception name or a DataFrame.
ReadCsv(f) ==
    IF f.kind = "absent"
    THEN [exc |-> "FileNotFoundError", columns |-> <<>>, numeric |-> <<>>, rows |-> <<>>]
    ELSE IF f.kind = "garbage"
    THEN [exc |-> "ParserError", columns |-> <<>>, numeric |-> <<>>, rows |-> <<>>]
    ELSE [exc |-> "",
          columns |-> DedupNames(f.header),
          numeric |-> [j \in 1..Len(f.header) |-> InferNumeric(f.rows, j)],
          rows |-> f.rows]

NCols(df) == Len(df.columns)
NRows(df) == Len(df.rows)
ColIdx(df) == 1..NCols(df)
NumericCols(df) == {j \in ColIdx(df) : df.numeric[j]}

\* df[col].isnull().sum()
NMissing(rows, j) == Cardinality({i \in 1..Len(rows) : IsNull(rows[i][j])})


(***************************************************************************)
(* Order statistics over the non-missing values of a column.               *)
(***************************************************************************)
NonNull(rows, j) == {i \in 1..Len(rows) : ~IsNull(rows[i][j])}

\* The k-th smallest non-missing value of column j (k in 1..count), looked
\* for from the nearer end of the value range.
KthSmallest(rows, j, k) ==
    LET idx == NonNull(rows, j)
        vals == {rows[i][j].n : i \in idx}
        IsKth(v) ==
            /\ Cardinality({i \in idx : rows[i][j].n < v}) < k
            /\ k <= Cardinality({i \in idx : rows[i][j].n <= v})
    IN  IF 2 * k <= Cardinality(idx) + 1
        THEN CHOOSE v \in vals : IsKth(v)
        ELSE 0 - (CHOOSE w \in {0 - v : v \in vals} : IsKth(0 - w))

\* Series.median(): NaN when every value is missing.
Median(rows, j) ==
    LET n == Cardinality(NonNull(rows, j))
    IN  IF n = 0 THEN NaN
        ELSE IF n % 2 = 1 THEN Num(KthSmallest(rows, j, (n + 1) \div 2))
        ELSE Num((KthSmallest(rows, j, n \div 2)
                    + KthSmallest(rows, j, n \div 2 + 1)) \div 2)

\* Variant of Quantile: interpolation "lower" instead of "linear".
QuantileLower(rows, j, q) ==
    LET n == Cardinality(NonNull(rows, j))
        k == ((n - 1) * q) \div 100
    IN  IF n = 0 THEN NaN ELSE Num(KthSmallest(rows, j, k + 1))

\* Series.quantile(q/100), linear interpolation; NaN when every value is missing.
Quantile(rows, j, q) ==
    LET n == Cardinality(NonNull(rows, j))
        pos == (n - 1) * q
        k == pos \div 100
        f == pos % 100
        lo == KthSmallest(rows, j, k + 1)
        hi == KthSmallest(rows, j, Min2(k + 2, n))
    IN  IF n = 0 THEN NaN ELSE Num(lo + ((hi - lo) * f) \div 100)

\* round(float(x), 4): to the nearest multiple of 0.0001, ties to even.
Round4(c) ==
    IF IsNull(c) THEN NaN
    ELSE LET u == Round4Unit
             d == c.n \div u
             r == c.n % u
         IN  IF 2 * r < u THEN Num(d * u)
             ELSE IF 2 * r > u THEN Num((d + 1) * u)
             ELSE IF d % 2 = 0 THEN Num(d * u) ELSE Num((d + 1) * u)

\* A missing percentage rounded to 2 decimals, in hundredths of a percent;
\* NaN for a table without rows (profile_data: mean of an empty column).
Pct2(m, n) == IF n = 0 THEN NaN ELSE Num((m * 10000 * 2 + n) \div (2 * n))

(***************************************************************************)
(* clean_data, step 1: fill numeric missing values with the median.        *)
(***************************************************************************)
\* df[col].fillna(median_val)
FillNa(rows, j, m) ==
    [i \in 1..Len(rows) |-> [rows[i] EXCEPT ![j] = IF IsNull(@) THEN m ELSE @]]

NeedsFill(df, j) == df.numeric[j] /\ NMissing(df.rows, j) > 0

RECURSIVE ImputeFrom(_, _, _)
ImputeFrom(df, rows, j) ==
    IF j > NCols(df) THEN rows
    ELSE ImputeFrom(df,
                    IF NeedsFill(df, j) THEN FillNa(rows, j, Median(rows, j)) ELSE rows,
                    j + 1)

Impute(df) == ImputeFrom(df, df.rows, 1)

ColOf(df, c) == CHOOSE j \in ColIdx(df) : df.columns[j] = c

\* report["filled_missing"]
FilledReport(df) ==
    [c \in {df.columns[j] : j \in {k \in ColIdx(df) : NeedsFill(df, k)}} |->
        [filled_count |-> NMissing(df.rows, ColOf(df, c)),
         fill_value |-> Round4(Median(df.rows, ColOf(df, c)))]]

(***************************************************************************)
(* clean_data, step 2: df.drop_duplicates() keeps the first of each group  *)
(* of identical rows (missing cells compare equal to missing cells).       *)
(***************************************************************************)
\* Variant of DropDuplicates: the de-duplication is skipped.
DropNothing(rows) == rows

\* Variant of DropDuplicates: keep="last", the last row of each group stays.
DropDuplicatesKeepLast(rows) ==
    LET indexed == [i \in 1..Len(rows) |-> <<i, rows[i]>>]
        IsLast(e) == \A k \in (e[1] + 1)..Len(rows) : rows[k] # e[2]
        kept == SelectSeq(indexed, IsLast)
    IN  [n \in 1..Len(kept) |-> kept[n][2]]

\* Variant of DropDuplicates: only a row equal to the row right above it goes.
DropAdjacentDuplicates(rows) ==
    LET indexed == [i \in 1..Len(rows) |-> <<i, rows[i]>>]
        IsNew(e) == e[1] = 1 \/ rows[e[1] - 1] # e[2]
        kept == SelectSeq(indexed, IsNew)
    IN  [n \in 1..Len(kept) |-> kept[n][2]]

DropDuplicates(rows) ==
    LET indexed == [i \in 1..Len(rows) |-> <<i, rows[i]>>]
        IsFirst(e) == \A k \in 1..(e[1] - 1) : rows[k] # e[2]
        kept == SelectSeq(indexed, IsFirst)
    IN  [n \in 1..Len(kept) |-> kept[n][2]]

(***************************************************************************)
(* clean_data, step 3: cap at the 1st / 99th percentile.                   *)
(***************************************************************************)
\* Variant of NCapped: counts the values on the bounds too (<=, >=).
NCappedNonStrict(rows, j) ==
    LET p1 == Quantile(rows, j, QLow)
        p99 == Quantile(rows, j, QHigh)
    IN  IF IsNull(p1) THEN 0
        ELSE Cardinality({i \in 1..Len(rows) :
                 /\ ~IsNull(rows[i][j])
                 /\ (rows[i][j].n <= p1.n \/ rows[i][j].n >= p99.n)})

\* ((df[col] < p1) | (df[col] > p99)).sum(); comparisons with NaN are false
NCapped(rows, j) ==
    LET p1 == Quantile(rows, j, QLow)
        p99 == Quantile(rows, j, QHigh)
    IN  IF IsNull(p1) THEN 0
        ELSE Cardinality({i \in 1..Len(rows) :
                 /\ ~IsNull(rows[i][j])
                 /\ (rows[i][j].n < p1.n \/ rows[i][j].n > p99.n)})

\* Variant of Clip: the upper bound is forgotten.
ClipLowerOnly(c, p1, p99) ==
    IF IsNull(c) THEN c ELSE Num(Max2(c.n, p1.n))

\* Series.clip(lower=p1, upper=p99) on one cell
Clip(c, p1, p99) ==
    IF IsNull(c) THEN c ELSE Num(Min2(Max2(c.n, p1.n), p99.n))

ClipCol(rows, j) ==
    LET p1 == Quantile(rows, j, QLow)
        p99 == Quantile(rows, j, QHigh)
    IN  [i \in 1..Len(rows) |-> [rows[i] EXCEPT ![j] = Clip(@, p1, p99)]]

RECURSIVE CapFrom(_, _, _)
CapFrom(df, rows, j) ==
    IF j > NCols(df) THEN rows
    ELSE CapFrom(df,
                 IF df.numeric[j] /\ NCapped(rows, j) > 0 THEN ClipCol(rows, j) ELSE rows,
                 j + 1)

\* the rows after the capping loop over numeric_cols
CapOutliers(df, rows) == CapFrom(df, rows, 1)

\* Variant of CappedReport: an entry for every numeric column that has a
\* value, also when nothing was capped.
CappedReportAllColumns(df, rows) ==
    [c \in {df.columns[j] : j \in {k \in ColIdx(df) :
                                      df.numeric[k] /\ NonNull(rows, k) # {}}} |->
        [capped_count |-> NCapped(rows, ColOf(df, c)),
         lower |-> Round4(Quantile(rows, ColOf(df, c), QLow)),
         upper |-> Round4(Quantile(rows, ColOf(df, c), QHigh))]]

\* report["capped_outliers"]
CappedReport(df, rows) ==
    [c \in {df.columns[j] : j \in {k \in ColIdx(df) : df.numeric[k] /\ NCapped(rows, k) > 0}} |->
        [capped_count |-> NCapped(rows, ColOf(df, c)),
         lower |-> Round4(Quantile(rows, ColOf(df, c), QLow)),
         upper |-> Round4(Quantile(rows, ColOf(df, c), QHigh))]]

(***************************************************************************)
(* The try / except Exception wrapper of the three tools: any exception of *)
(* the body becomes the result {"error": str(exc)}.                        *)
(***************************************************************************)
\* Variant of TryExcept: "except OSError" instead of "except Exception".
TryExceptOSError(exc, value) ==
    IF exc \in {"FileNotFoundError", "PermissionError", "OSError"}
    THEN [ret |-> [error |-> exc], raised |-> FALSE]
    ELSE IF exc # "" THEN [ret |-> <<>>, raised |-> TRUE]
    ELSE [ret |-> value, raised |-> FALSE]

TryExcept(exc, value) ==
    IF exc # "" THEN [ret |-> [error |-> exc], raised |-> FALSE]
    ELSE [ret |-> value, raised |-> FALSE]

NoPath == [dir |-> "", name |-> ""]

(***************************************************************************)
(* profile_data                                                            *)
(***************************************************************************)
ColNames(df) == Range(df.columns)

\* df.describe(): the numeric columns when there is one, else every column.
Described(df) ==
    IF NumericCols(df) # {} THEN NumericCols(df) ELSE ColIdx(df)

\* Of the statistics of a column the model keeps count, min and max (numeric)
\* or count and unique (object); mean, std, the quartiles, top and freq are
\* left out.
DescribeCol(df, j) ==
    LET nonnull == NonNull(df.rows, j)
        n == Cardinality(nonnull)
    IN  IF df.numeric[j]
        THEN [count |-> n,
              min |-> IF n = 0 THEN NaN ELSE Round4(Num(KthSmallest(df.rows, j, 1))),
              max |-> IF n = 0 THEN NaN ELSE Round4(Num(KthSmallest(df.rows, j, n)))]
        ELSE [count |-> n,
              unique |-> Cardinality({df.rows[i][j] : i \in nonnull})]

ProfileReport(p, df) ==
    [file |-> p,
     rows |-> NRows(df),
     columns |-> NCols(df),
     column_names |-> df.columns,
     dtypes |-> [c \in ColNames(df) |->
                    IF df.numeric[ColOf(df, c)] THEN "number" ELSE "object"],
     missing_counts |-> [c \in ColNames(df) |-> NMissing(df.rows, ColOf(df, c))],
     missing_pct |-> [c \in ColNames(df) |->
                        Pct2(NMissing(df.rows, ColOf(df, c)), NRows(df))],
     statistics |-> [c \in {df.columns[j] : j \in Described(df)} |->
                        DescribeCol(df, ColOf(df, c))]]

ProfileOutcome(p, f) ==
    LET df == ReadCsv(f)
    IN  TryExcept(df.exc, ProfileReport(p, df))

\* Variant of ProfileData: the call leaves a cache directory behind.
ProfileDataCaching(p) ==
    LET out == ProfileOutcome(p, fs[p])
    IN  /\ call' = [op |-> "profile_data", file_path |-> p, output_path |-> NoPath,
                    input |-> fs[p], fault |-> "none", deduped |-> <<>>]
        /\ ret' = out.ret
        /\ raised' = out.raised
        /\ dirs' = dirs \cup {"cache"}
        /\ UNCHANGED <<fs, concVars, deployVars, proc, supVars>>

ProfileData(p) ==
    LET out == ProfileOutcome(p, fs[p])
    IN  /\ call' = [op |-> "profile_data", file_path |-> p, output_path |-> NoPath,
                    input |-> fs[p], fault |-> "none", deduped |-> <<>>]
        /\ ret' = out.ret
        /\ raised' = out.raised
        /\ UNCHANGED <<fs, dirs, concVars, deployVars, proc, supVars>>

(***************************************************************************)
(* check_missing                                                           *)
(***************************************************************************)
\* n_missing / len(df) raises ZeroDivisionError in the first loop iteration
\* of a table without rows.
CheckMissingExc(df) ==
    IF df.exc # "" THEN df.exc
    ELSE IF NCols(df) > 0 /\ NRows(df) = 0 THEN "ZeroDivisionError"
    ELSE ""

CheckMissingReport(p, df) ==
    [file |-> p,
     total_rows |-> NRows(df),
     missing_by_column |-> [c \in ColNames(df) |->
         [missing_count |-> NMissing(df.rows, ColOf(df, c)),
          missing_pct |-> Pct2(NMissing(df.rows, ColOf(df, c)), NRows(df))]]]

CheckMissingOutcome(p, f) ==
    LET df == ReadCsv(f)
    IN  TryExcept(CheckMissingExc(df), CheckMissingReport(p, df))

CheckMissing(p) ==
    LET out == CheckMissingOutcome(p, fs[p])
    IN  /\ call' = [op |-> "check_missing", file_path |-> p, output_path |-> NoPath,
                    input |-> fs[p], fault |-> "none", deduped |-> <<>>]
        /\ ret' = out.ret
        /\ raised' = out.raised
        /\ UNCHANGED <<fs, dirs, concVars, deployVars, proc, supVars>>

(***************************************************************************)
(* clean_data                                                              *)
(***************************************************************************)
\* What the environment can make fail after the transformation: creating
\* the output directory, opening the output file, writing it.  A write that
\* fails after the file was opened leaves a truncated file behind.
Faults == {"none", "makedirs", "open", "write"}

CleanExc(df, fault) ==
    IF df.exc # "" THEN df.exc
    ELSE IF fault = "makedirs" THEN "PermissionError"
    ELSE IF fault = "open" THEN "PermissionError"
    ELSE IF fault = "write" THEN "OSError"
    ELSE ""

\* Variant of CleanReport: cleaned_rows is taken before the de-duplication.
CleanReportBeforeDedup(p, q, df, imputed, deduped, capped) ==
    [input_file |-> p,
     output_file |-> q,
     original_rows |-> NRows(df),
     filled_missing |-> FilledReport(df),
     duplicates_removed |-> Len(imputed) - Len(deduped),
     capped_outliers |-> CappedReport(df, deduped),
     cleaned_rows |-> Len(imputed)]

CleanReport(p, q, df, imputed, deduped, capped) ==
    [input_file |-> p,
     output_file |-> q,
     original_rows |-> NRows(df),
     filled_missing |-> FilledReport(df),
     duplicates_removed |-> Len(imputed) - Len(deduped),
     capped_outliers |-> CappedReport(df, deduped),
     cleaned_rows |-> Len(capped)]

\* df.to_csv(output_path, index=False): the header is the DataFrame's
\* column names, one line per row, an empty field for a missing cell.
ToCsv(df, rows, g) == CsvFile(df.columns, rows, g)

\* Variant of CleanData: the output directory is made before the input is read.
CleanDataMakeDirsFirst(p, q) ==
    LET f == fs[p]
        df == ReadCsv(f)
        imputed == Impute(df)
        deduped == DropDuplicates(imputed)
        capped == CapOutliers(df, deduped)
        report == CleanReport(p, q, df, imputed, deduped, capped)
    IN  \E fault \in Faults :
            LET out == TryExcept(CleanExc(df, fault), report)
            IN  /\ df.exc = "" => f.gen < MaxPasses
                /\ df.exc # "" => fault = "none"
                /\ fault = "makedirs" => DirName(q) \notin dirs
                /\ call' = [op |-> "clean_data", file_path |-> p, output_path |-> q,
                            input |-> f, fault |-> fault,
                            deduped |-> IF df.exc = "" THEN deduped ELSE <<>>]
                /\ ret' = out.ret
                /\ raised' = out.raised
                /\ dirs' = IF fault # "makedirs"
                           THEN dirs \cup {DirName(q)} ELSE dirs
                /\ fs' = IF df.exc # "" \/ fault \in {"makedirs", "open"} THEN fs
                         ELSE IF fault = "write" THEN [fs EXCEPT ![q] = Garbage]
                         ELSE [fs EXCEPT ![q] = ToCsv(df, capped, f.gen + 1)]
                /\ UNCHANGED <<concVars, deployVars, proc, supVars>>

CleanData(p, q) ==
    LET f == fs[p]
        df == ReadCsv(f)
        imputed == Impute(df)
        deduped == DropDuplicates(imputed)
        capped == CapOutliers(df, deduped)
        report == CleanReport(p, q, df, imputed, deduped, capped)
    IN  \E fault \in Faults :
            LET out == TryExcept(CleanExc(df, fault), report)
            IN  /\ df.exc = "" => f.gen < MaxPasses
                /\ df.exc # "" => fault = "none"
                /\ fault = "makedirs" => DirName(q) \notin dirs
                /\ call' = [op |-> "clean_data", file_path |-> p, output_path |-> q,
                            input |-> f, fault |-> fault,
                            deduped |-> IF df.exc = "" THEN deduped ELSE <<>>]
                /\ ret' = out.ret
                /\ raised' = out.raised
                /\ dirs' = IF df.exc = "" /\ fault # "makedirs"
                           THEN dirs \cup {DirName(q)} ELSE dirs
                /\ fs' = IF df.exc # "" \/ fault \in {"makedirs", "open"} THEN fs
                         ELSE IF fault = "write" THEN [fs EXCEPT ![q] = Garbage]
                         ELSE [fs EXCEPT ![q] = ToCsv(df, capped, f.gen + 1)]
                /\ UNCHANGED <<concVars, deployVars, proc, supVars>>

(***************************************************************************)
(* clean_data step by step, for callers that run at the same time.  There  *)
(* is no lock in the code: the steps of a call are the read of the input   *)
(* (line 105), the transformation on the caller's own DataFrame, makedirs  *)
(* (line 141), the open of the output file, which truncates it, the writes *)
(* of the buffered text, each at the writer's own offset (line 142), and   *)
(* the return (line 144).  A file is the sequence of its lines, the header *)
(* line first.                                                             *)
(***************************************************************************)
Callers == {1, 2}

In1 == [dir |-> "", name |-> "a.csv"]
In2 == [dir |-> "", name |-> "b.csv"]
Out1 == [dir |-> "out", name |-> "a.csv"]
Out2 == [dir |-> "out", name |-> "b.csv"]
ConcPaths == {In1, In2, Out1, Out2}

Absent == [exists |-> FALSE, lines |-> <<>>]
\* What a writer's offset past the end of a truncated file leaves in between.
Hole == <<>>

\* to_csv: the header line, then one line per row.
CsvLines(f) == <<[j \in 1..Len(f.header) |-> Str(f.header[j])]>> \o f.rows
OnDisk(f) == [exists |-> TRUE, lines |-> CsvLines(f)]

\* What read_csv finds at a path: no file, an empty file, or header and rows.
ParseDisk(d) ==
    IF ~d.exists THEN NoFile
    ELSE IF d.lines = <<>> \/ Head(d.lines) = Hole THEN Garbage
    ELSE CsvFile([j \in 1..Len(Head(d.lines)) |-> Head(d.lines)[j].s],
                 Tail(d.lines), 0)

IdleJob ==
    [file_path |-> NoPath, output_path |-> NoPath, out |-> <<>>,
     report |-> <<>>, offset |-> 0, ret |-> <<>>]

NoCallers ==
    /\ disk = [p \in ConcPaths |-> Absent]
    /\ pc = [c \in Callers |-> "idle"]
    /\ job = [c \in Callers |-> IdleJob]
    /\ order = <<>>

\* pd.read_csv and steps 1 to 3 on the caller's own DataFrame.
ConcRead(c) ==
    LET p == job[c].file_path
        q == job[c].output_path
        df == ReadCsv(ParseDisk(disk[p]))
        imputed == Impute(df)
        deduped == DropDuplicates(imputed)
        capped == CapOutliers(df, deduped)
    IN  /\ pc[c] = "read"
        /\ IF df.exc # ""
           THEN /\ job' = [job EXCEPT ![c].ret = TryExcept(df.exc, <<>>).ret]
                /\ pc' = [pc EXCEPT ![c] = "done"]
           ELSE /\ job' = [job EXCEPT
                              ![c].out = CsvLines(ToCsv(df, capped, 1)),
                              ![c].report = CleanReport(p, q, df, imputed, deduped, capped)]
                /\ pc' = [pc EXCEPT ![c] = "makedirs"]
        /\ UNCHANGED <<toolVars, dirs, disk, order, deployVars, proc, supVars>>

\* Variant of MakeDirs: exist_ok is left out.
MakeDirsNoExistOk(d, ds) == IF d \in ds THEN "FileExistsError" ELSE ""

\* os.makedirs(d, exist_ok=True): the exception it raises, none here.
MakeDirs(d, ds) == ""

ConcMakeDirs(c) ==
    LET d == DirName(job[c].output_path)
        exc == MakeDirs(d, dirs)
    IN  /\ pc[c] = "makedirs"
        /\ IF exc # ""
           THEN /\ job' = [job EXCEPT ![c].ret = TryExcept(exc, <<>>).ret]
                /\ pc' = [pc EXCEPT ![c] = "done"]
                /\ dirs' = dirs
           ELSE /\ dirs' = dirs \cup {d}
                /\ pc' = [pc EXCEPT ![c] = "open"]
                /\ job' = job
        /\ UNCHANGED <<toolVars, disk, order, deployVars, proc, supVars>>

\* Variant of OpenForWrite: the file is opened without truncation ("r+").
OpenNoTruncate(d) == [exists |-> TRUE, lines |-> d.lines]

\* open(output_path, "w"): creates or truncates the file.
OpenForWrite(d) == [exists |-> TRUE, lines |-> <<>>]

ConcOpen(c) ==
    /\ pc[c] = "open"
    /\ disk' = [disk EXCEPT ![job[c].output_path] = OpenForWrite(@)]
    /\ job' = [job EXCEPT ![c].offset = 0]
    /\ order' = Append(order, <<"open", c>>)
    /\ pc' = [pc EXCEPT ![c] = "write"]
    /\ UNCHANGED <<toolVars, dirs, deployVars, proc, supVars>>

\* write(2) of a chunk of lines at offset off; the file grows as needed.
WriteAt(d, off, chunk) ==
    LET n == Max2(Len(d.lines), off + Len(chunk))
    IN  [exists |-> TRUE,
         lines |-> [i \in 1..n |->
                      IF off < i /\ i <= off + Len(chunk) THEN chunk[i - off]
                      ELSE IF i <= Len(d.lines) THEN d.lines[i]
                      ELSE Hole]]

\* One flush of the buffered writer: the next k lines, k as the buffer and
\* the chunking of to_csv decide.
ConcWrite(c) ==
    LET q == job[c].output_path
        off == job[c].offset
        out == job[c].out
    IN  /\ pc[c] = "write"
        /\ \E k \in 1..(Len(out) - off) :
               /\ disk' = [disk EXCEPT ![q] = WriteAt(@, off, SubSeq(out, off + 1, off + k))]
               /\ job' = [job EXCEPT ![c].offset = off + k]
               /\ IF off + k = Len(out)
                  THEN /\ pc' = [pc EXCEPT ![c] = "return"]
                       /\ order' = Append(order, <<"written", c>>)
                  ELSE UNCHANGED <<pc, order>>
        /\ UNCHANGED <<toolVars, dirs, deployVars, proc, supVars>>

\* return json.dumps(report, indent=2)
ConcReturn(c) ==
    /\ pc[c] = "return"
    /\ job' = [job EXCEPT ![c].ret = TryExcept("", job[c].report).ret]
    /\ pc' = [pc EXCEPT ![c] = "done"]
    /\ UNCHANGED <<toolVars, dirs, disk, order, deployVars, proc, supVars>>

\* The input files of caller c: none, or one numeric column of 0 to MaxRows
\* rows holding 10c + 1, 10c + 2, ...
ConcFile(c, n) == OnDisk(CsvFile(<<"a">>, [i \in 1..n |-> <<V(10 * c + i)>>], 0))
ConcFiles(c) == {ConcFile(c, n) : n \in 0..MaxRows} \cup {Absent}

(***************************************************************************)
(* The deploy scripts (src/src/deploy_iam_role.py, deploy_cognito.py,      *)
(* deploy_code_interpreter.py, deploy_runtime.py) and the dataset          *)
(* generator.  They share the .env file, a sequence of lines <<key,        *)
(* value>>.  Every run is a new process whose environment holds none of    *)
(* the keys of .env (the documented usage exports AWS_PROFILE only).       *)
(***************************************************************************)
ROLE_NAME == "AgentCoreMultiAgentRole"
CI_ROLE_NAME == "CodeInterpreterExecutionRole"
INTERPRETERS == <<"dataScientist", "dataVisualizer">>

\* f"arn:aws:iam::{account_id}:role/{name}"
RoleArn(name) == "arn:aws:iam::acct:role/" \o name

\* name.upper().replace("-", "_") + "_CODE_INTERPRETER_ID"
InterpreterKey(name) ==
    IF name = "dataScientist" THEN "DATASCIENTIST_CODE_INTERPRETER_ID"
    ELSE "DATAVISUALIZER_CODE_INTERPRETER_ID"

NoEnvFile == [exists |-> FALSE, lines |-> <<>>]
EnvOf(lines) == [exists |-> TRUE, lines |-> lines]

\* The .env file before the first script runs: none, one with an entry of
\* the user's, or one left by an earlier deployment with another role.
InitialEnvFiles ==
    {NoEnvFile,
     EnvOf(<<<<"OTHER", "x">>>>),
     EnvOf(<<<<"EXECUTION_ROLE_ARN", RoleArn("OldRole")>>, <<"OTHER", "x">>>>)}

NoRuntime == [role |-> "", status |-> ""]
NoAws ==
    [roles |-> {},
     interpreters |-> [n \in Range(INTERPRETERS) |-> ""],
     runtime |-> NoRuntime,
     pool |-> "",
     created |-> 0]

NoDeploy ==
    /\ envFile = NoEnvFile
    /\ aws = NoAws
    /\ host = [housing |-> FALSE, docker |-> FALSE, toolkit |-> FALSE]
    /\ runs = <<>>

\* load_dotenv / os.getenv(key): the value of the last line that sets the
\* key, "" when the file or the key is missing.
RECURSIVE LookupFrom(_, _, _)
LookupFrom(lines, key, i) ==
    IF i = 0 THEN ""
    ELSE IF lines[i][1] = key THEN lines[i][2]
    ELSE LookupFrom(lines, key, i - 1)

GetEnv(env, key) == IF env.exists THEN LookupFrom(env.lines, key, Len(env.lines)) ELSE ""

\* update_env / _update_env: every line of the key is replaced, the other
\* lines are kept, the key is appended when no line sets it.
UpdateEnv(env, key, value) ==
    LET old == IF env.exists THEN env.lines ELSE <<>>
        found == \E i \in 1..Len(old) : old[i][1] = key
        new == [i \in 1..Len(old) |-> IF old[i][1] = key THEN <<key, value>> ELSE old[i]]
    IN  EnvOf(IF found THEN new ELSE Append(new, <<key, value>>))

\* deploy_code_interpreter.save_env: the file is written anew.
SaveEnv(ids, role_arn) ==
    EnvOf(<<<<"REGION", "us-east-1">>,
            <<"EXECUTION_ROLE_ARN", role_arn>>,
            <<"S3_BUCKET", "sagemaker-us-east-1-acct">>,
            <<"S3_PREFIX", "strands-multi-agent">>>>
          \o [i \in 1..Len(INTERPRETERS) |->
                 <<InterpreterKey(INTERPRETERS[i]), ids[INTERPRETERS[i]]>>])

CanRun == Len(runs) < MaxRuns
Ran(script, status) == runs' = Append(runs, <<script, status>>)

\* deploy_iam_role.main: get_account_id, create_role, update_env.  An AWS
\* call that raises ends the script before .env is touched.
DeployIamRole ==
    /\ CanRun
    /\ UNCHANGED <<toolVars, dirs, concVars, proc, supVars>>
    /\ \E outcome \in {"ok", "aws_error"} :
           IF outcome = "aws_error"
           THEN /\ Ran("deploy_iam_role", 1)
                /\ UNCHANGED <<envFile, aws, host>>
           ELSE /\ aws' = [aws EXCEPT !.roles = @ \cup {ROLE_NAME}]
                /\ envFile' = UpdateEnv(envFile, "EXECUTION_ROLE_ARN", RoleArn(ROLE_NAME))
                /\ Ran("deploy_iam_role", 0)
                /\ UNCHANGED host

\* The keys deploy_cognito.update_env sets, in the order of its env_keys.
COGNITO_KEYS ==
    <<"COGNITO_POOL_ID", "COGNITO_CLIENT_ID", "COGNITO_DISCOVERY_URL",
      "COGNITO_BEARER_TOKEN", "COGNITO_REFRESH_TOKEN">>

\* The id AWS gives the n-th user pool created.
PoolId(n) == "pool-" \o ToString(n)

\* What create_user_pool returns for the pool with this id, by key.
CognitoConfig(pool_id) ==
    [k \in Range(COGNITO_KEYS) |->
        IF k = "COGNITO_POOL_ID" THEN pool_id
        ELSE IF k = "COGNITO_CLIENT_ID" THEN "client-of-" \o pool_id
        ELSE IF k = "COGNITO_DISCOVERY_URL" THEN "https://cognito-idp/" \o pool_id
        ELSE IF k = "COGNITO_BEARER_TOKEN" THEN "access-token"
        ELSE "refresh-token"]

\* deploy_cognito.update_env: a line whose key is one of the first i
\* env_keys is replaced, the other lines are kept, the keys without a line
\* are appended in the order of env_keys.
RECURSIVE UpdateEnvKeys(_, _, _)
UpdateEnvKeys(env, config, i) ==
    IF i = 0 THEN EnvOf(IF env.exists THEN env.lines ELSE <<>>)
    ELSE UpdateEnv(UpdateEnvKeys(env, config, i - 1),
                   COGNITO_KEYS[i], config[COGNITO_KEYS[i]])

\* deploy_cognito.main: create_user_pool (the pool of the same name is
\* deleted first), update_env.  An AWS call that raises ends the script
\* before .env is touched.
DeployCognito ==
    /\ CanRun
    /\ UNCHANGED <<toolVars, dirs, concVars, proc, supVars>>
    /\ \E outcome \in {"ok", "aws_error"} :
           IF outcome = "aws_error"
           THEN /\ Ran("deploy_cognito", 1)
                /\ UNCHANGED <<envFile, aws, host>>
           ELSE LET pool_id == PoolId(aws.created + 1)
                IN  /\ aws' = [aws EXCEPT !.pool = pool_id, !.created = @ + 1]
                    /\ envFile' = UpdateEnvKeys(envFile, CognitoConfig(pool_id),
                                                Len(COGNITO_KEYS))
                    /\ Ran("deploy_cognito", 0)
                    /\ UNCHANGED host

\* The id AWS gives the n-th interpreter created.
InterpreterId(n) == "ci-" \o ToString(n)

\* deploy_code_interpreter.main: get_account_id, create_execution_role,
\* create_code_interpreter for both interpreters, save_env.  An interpreter
\* that does not become READY raises and ends the script before save_env.
DeployCodeInterpreter ==
    /\ CanRun
    /\ UNCHANGED <<toolVars, dirs, concVars, proc, supVars>>
    /\ \E outcome \in {"ok", "aws_error", "not_ready"} :
           IF outcome = "aws_error"
           THEN /\ Ran("deploy_code_interpreter", 1)
                /\ UNCHANGED <<envFile, aws, host>>
           ELSE IF outcome = "not_ready"
           THEN /\ aws' = [aws EXCEPT
                              !.roles = @ \cup {CI_ROLE_NAME},
                              !.interpreters[INTERPRETERS[1]] = InterpreterId(aws.created + 1),
                              !.created = @ + 1]
                /\ Ran("deploy_code_interpreter", 1)
                /\ UNCHANGED <<envFile, host>>
           ELSE LET ids == [n \in Range(INTERPRETERS) |->
                              IF n = INTERPRETERS[1] THEN InterpreterId(aws.created + 1)
                              ELSE InterpreterId(aws.created + 2)]
                IN  /\ aws' = [aws EXCEPT
                                  !.roles = @ \cup {CI_ROLE_NAME},
                                  !.interpreters = ids,
                                  !.created = @ + 2]
                    /\ envFile' = SaveEnv(ids, RoleArn(CI_ROLE_NAME))
                    /\ Ran("deploy_code_interpreter", 0)
                    /\ UNCHANGED host

\* deploy_runtime.check_prerequisites: the errors list is not empty.
PrerequisiteErrors ==
    \/ ~envFile.exists
    \/ GetEnv(envFile, "EXECUTION_ROLE_ARN") = ""
    \/ GetEnv(envFile, "DATASCIENTIST_CODE_INTERPRETER_ID") = ""
    \/ GetEnv(envFile, "DATAVISUALIZER_CODE_INTERPRETER_ID") = ""
    \/ ~host.housing
    \/ ~host.docker

\* deploy_runtime.main: check_prerequisites, the toolkit import, configure
\* with the role read from .env, launch, the wait for an end status, and on
\* READY the two _update_env calls.
DeployRuntime ==
    /\ CanRun
    /\ UNCHANGED <<toolVars, dirs, concVars, proc, supVars>>
    /\ IF PrerequisiteErrors \/ ~host.toolkit
       THEN /\ Ran("deploy_runtime", 1)
            /\ UNCHANGED <<envFile, aws, host>>
       ELSE \E status \in {"READY", "CREATE_FAILED"} :
                /\ aws' = [aws EXCEPT !.runtime =
                              [role |-> GetEnv(envFile, "EXECUTION_ROLE_ARN"),
                               status |-> status]]
                /\ envFile' = IF status = "READY"
                              THEN UpdateEnv(UpdateEnv(envFile, "AGENT_ARN", "agent-arn"),
                                             "AGENT_ID", "agent-id")
                              ELSE envFile
                /\ Ran("deploy_runtime", IF status = "READY" THEN 0 ELSE 1)
                /\ UNCHANGED host

\* src.utils.dataset main: writes data/housing.csv.
GenerateDataset ==
    /\ ~host.housing
    /\ UNCHANGED <<toolVars, dirs, concVars, proc, supVars>>
    /\ host' = [host EXCEPT !.housing = TRUE]
    /\ UNCHANGED <<envFile, aws, runs>>

(***************************************************************************)
(* deploy_runtime and deploy_code_interpreter step by step, for their      *)
(* polling loops.  One script is run; a step is a call of AWS or of the    *)
(* starter toolkit, or one round of a loop.  A poll observes whatever      *)
(* status the service reports at that moment.                              *)
(***************************************************************************)
MaxAttempts == 3   \* rounds of deploy_runtime's wait loop that are counted

\* for _ in range(60)
PollLimit == 60

END_STATUSES == {"READY", "CREATE_FAILED", "DELETE_FAILED", "UPDATE_FAILED"}

\* What runtime.status().endpoint["status"] can be, and what status is set
\* to when the call raises.
RuntimeStatuses == {"CREATING", "UPDATING"} \cup END_STATUSES
Checking == "CHECKING (e)"

\* What get_code_interpreter(...)["status"] can be.
InterpreterStatuses == {"CREATING", "READY", "CREATE_FAILED", "DELETING"}

IdleProc ==
    [script |-> "", pc |-> "exit", status |-> "", attempt |-> 0, polls |-> 0,
     i |-> 0, ids |-> [n \in Range(INTERPRETERS) |-> ""], ready |-> {},
     role_arn |-> "", calls |-> <<>>, exc |-> "", saved |-> FALSE]

NoProc == proc = IdleProc

\* python -m src.deploy_runtime / python -m src.deploy_code_interpreter
StartScript(script) ==
    /\ proc.script = ""
    /\ proc' = [IdleProc EXCEPT !.script = script,
                                !.pc = IF script = "deploy_runtime" THEN "check" ELSE "role"]
    /\ UNCHANGED <<toolVars, dirs, concVars, deployVars, supVars>>

\* The script ends with this exit status: sys.exit(1), an exception that
\* escapes main (status 1), or the end of main (status 0).
Exit(p, status) ==
    /\ proc' = [p EXCEPT !.pc = "exit"]
    /\ Ran(p.script, status)

\* deploy, lines 76 to 84: check_prerequisites and the toolkit import.
RtCheck ==
    /\ proc.script = "deploy_runtime"
    /\ proc.pc = "check"
    /\ UNCHANGED <<toolVars, dirs, concVars, supVars>>
    /\ UNCHANGED <<envFile, aws, host>>
    /\ IF PrerequisiteErrors \/ ~host.toolkit
       THEN Exit(proc, 1)
       ELSE /\ proc' = [proc EXCEPT !.pc = "configure",
                                    !.role_arn = GetEnv(envFile, "EXECUTION_ROLE_ARN")]
            /\ UNCHANGED runs

\* deploy, lines 92 to 106: runtime.configure.
RtConfigure ==
    /\ proc.script = "deploy_runtime"
    /\ proc.pc = "configure"
    /\ UNCHANGED <<toolVars, dirs, concVars, supVars>>
    /\ UNCHANGED <<envFile, aws, host>>
    /\ LET p == [proc EXCEPT !.calls = Append(@, "configure")]
       IN  \E outcome \in {"ok", "raise"} :
               IF outcome = "raise" THEN Exit([p EXCEPT !.exc = "ToolkitError"], 1)
               ELSE /\ proc' = [p EXCEPT !.pc = "launch"]
                    /\ UNCHANGED runs

\* deploy, lines 108 to 120: runtime.launch creates the Runtime; status and
\* attempt are set for the wait loop.
RtLaunch ==
    /\ proc.script = "deploy_runtime"
    /\ proc.pc = "launch"
    /\ UNCHANGED <<toolVars, dirs, concVars, supVars>>
    /\ UNCHANGED <<envFile, host>>
    /\ LET p == [proc EXCEPT !.calls = Append(@, "launch")]
       IN  \E outcome \in {"ok", "raise"} :
               IF outcome = "raise"
               THEN /\ Exit([p EXCEPT !.exc = "ToolkitError"], 1)
                    /\ UNCHANGED aws
               ELSE /\ proc' = [p EXCEPT !.pc = "wait", !.status = "CREATING",
                                         !.attempt = 0]
                    /\ aws' = [aws EXCEPT !.runtime =
                                  [role |-> proc.role_arn, status |-> "CREATING"]]
                    /\ UNCHANGED runs

\* deploy, lines 121 to 129: one round of the wait loop.  attempt is only
\* printed; it is counted up to MaxAttempts.
RtPoll ==
    /\ proc.script = "deploy_runtime"
    /\ proc.pc = "wait"
    /\ proc.status \notin END_STATUSES
    /\ UNCHANGED <<toolVars, dirs, concVars, supVars>>
    /\ UNCHANGED <<envFile, host, runs>>
    /\ \E observed \in RuntimeStatuses \cup {Checking} :
           /\ proc' = [proc EXCEPT
                          !.status = observed,
                          !.attempt = IF @ < MaxAttempts THEN @ + 1 ELSE @]
           /\ aws' = IF observed = Checking THEN aws
                     ELSE [aws EXCEPT !.runtime.status = observed]

\* Variant of Succeeded: only CREATE_FAILED counts as a failure.
SucceededUnlessCreateFailed(status) == status # "CREATE_FAILED"

\* deploy, line 131
Succeeded(status) == status = "READY"

\* deploy, lines 121 and 131 to 151: the loop is left on an end status; on
\* READY the two _update_env calls, else sys.exit(1).
RtFinish ==
    /\ proc.script = "deploy_runtime"
    /\ proc.pc = "wait"
    /\ proc.status \in END_STATUSES
    /\ UNCHANGED <<toolVars, dirs, concVars, supVars>>
    /\ UNCHANGED <<aws, host>>
    /\ IF Succeeded(proc.status)
       THEN /\ envFile' = UpdateEnv(UpdateEnv(envFile, "AGENT_ARN", "agent-arn"),
                                    "AGENT_ID", "agent-id")
            /\ Exit([proc EXCEPT !.saved = TRUE], 0)
       ELSE /\ UNCHANGED envFile
            /\ Exit(proc, 1)

\* deploy_code_interpreter.main, lines 205 to 211: get_account_id and
\* create_execution_role.
CiRole ==
    /\ proc.script = "deploy_code_interpreter"
    /\ proc.pc = "role"
    /\ UNCHANGED <<toolVars, dirs, concVars, supVars>>
    /\ UNCHANGED <<envFile, host>>
    /\ \E outcome \in {"ok", "raise"} :
           IF outcome = "raise"
           THEN /\ Exit([proc EXCEPT !.exc = "ClientError"], 1)
                /\ UNCHANGED aws
           ELSE /\ proc' = [proc EXCEPT !.pc = "create", !.i = 1,
                                        !.role_arn = RoleArn(CI_ROLE_NAME)]
                /\ aws' = [aws EXCEPT !.roles = @ \cup {CI_ROLE_NAME}]
                /\ UNCHANGED runs

\* create_code_interpreter, lines 142 to 164, for interpreter i: the
\* interpreter of the same name is deleted, a new one is created.
CiCreate ==
    /\ proc.script = "deploy_code_interpreter"
    /\ proc.pc = "create"
    /\ UNCHANGED <<toolVars, dirs, concVars, supVars>>
    /\ UNCHANGED <<envFile, host>>
    /\ LET name == INTERPRETERS[proc.i]
           ci_id == InterpreterId(aws.created + 1)
       IN  \E outcome \in {"ok", "raise"} :
               IF outcome = "raise"
               THEN /\ Exit([proc EXCEPT !.exc = "ClientError"], 1)
                    /\ UNCHANGED aws
               ELSE /\ proc' = [proc EXCEPT !.pc = "poll", !.polls = 0, !.status = ""]
                    /\ aws' = [aws EXCEPT !.interpreters[name] = ci_id,
                                          !.created = @ + 1]
                    /\ UNCHANGED runs

\* Variant of KeepsWaiting: every status but READY is waited on.
KeepsWaitingUnlessReady(status) == status # "READY"

\* create_code_interpreter, line 172
KeepsWaiting(status) == status = "CREATING"

\* create_code_interpreter, lines 167 to 175: one round of the loop of
\* range(60) for interpreter i.  READY returns the id to main, which goes on
\* to the next interpreter or to save_env.
CiPoll ==
    /\ proc.script = "deploy_code_interpreter"
    /\ proc.pc = "poll"
    /\ proc.polls < PollLimit
    /\ UNCHANGED <<toolVars, dirs, concVars, supVars>>
    /\ UNCHANGED <<envFile, aws, host>>
    /\ LET name == INTERPRETERS[proc.i]
           p == [proc EXCEPT !.polls = @ + 1]
       IN  \/ Exit([p EXCEPT !.exc = "ClientError"], 1)
           \/ \E observed \in InterpreterStatuses :
                  IF observed = "READY"
                  THEN /\ proc' = [p EXCEPT
                                      !.status = observed,
                                      !.ids[name] = aws.interpreters[name],
                                      !.ready = @ \cup {name},
                                      !.i = IF proc.i < Len(INTERPRETERS) THEN @ + 1 ELSE @,
                                      !.pc = IF proc.i < Len(INTERPRETERS) THEN "create"
                                             ELSE "save"]
                       /\ UNCHANGED runs
                  ELSE IF KeepsWaiting(observed)
                  THEN /\ proc' = [p EXCEPT !.status = observed]
                       /\ UNCHANGED runs
                  ELSE Exit([p EXCEPT !.status = observed, !.exc = "RuntimeError"], 1)

\* create_code_interpreter, line 177: the loop of range(60) is used up.
CiTimeout ==
    /\ proc.script = "deploy_code_interpreter"
    /\ proc.pc = "poll"
    /\ proc.polls >= PollLimit
    /\ UNCHANGED <<toolVars, dirs, concVars, supVars>>
    /\ UNCHANGED <<envFile, aws, host>>
    /\ Exit([proc EXCEPT !.exc = "TimeoutError"], 1)

\* deploy_code_interpreter.main, lines 216 to 234: save_env, and the quick
\* test, whose exceptions are caught.
CiSave ==
    /\ proc.script = "deploy_code_interpreter"
    /\ proc.pc = "save"
    /\ UNCHANGED <<toolVars, dirs, concVars, supVars>>
    /\ UNCHANGED <<aws, host>>
    /\ envFile' = SaveEnv(proc.ids, proc.role_arn)
    /\ Exit([proc EXCEPT !.saved = TRUE], 0)

(***************************************************************************)
(* The supervisor's specialist tools (src/src/agents/supervisor.py) and    *)
(* their S3 bridge (src/src/utils/s3.py), step by step, one tool call at a *)
(* time.  A local path and an S3 key are the sequences of their segments:  *)
(* "data/housing.csv" is <<"data", "housing.csv">>, an empty last segment  *)
(* is a trailing "/".  The specialist agent is a black box that answers or *)
(* raises and may write a local file.                                      *)
(***************************************************************************)
S3_PREFIX == "multi-agent"
DATA_DIR == "data"
OUTPUT_DIR == "output"

MaxCalls == 2   \* tool calls the supervisor agent makes

\* f"{a}/{b}".replace("//", "/"): the "/" that ends a is not doubled.
Join(a, b) ==
    (IF a # <<>> /\ a[Len(a)] = "" THEN SubSeq(a, 1, Len(a) - 1) ELSE a) \o b

\* supervisor._s3_key
S3Key(relative_path) ==
    IF S3_PREFIX # "" THEN Join(<<S3_PREFIX>>, relative_path) ELSE relative_path

\* key.startswith(prefix), for a prefix that ends with "/".
StartsWith(key, prefix) ==
    /\ Len(key) >= Len(prefix)
    /\ \A i \in 1..(Len(prefix) - 1) : key[i] = prefix[i]

\* _ensure_data_local, lines 66 to 69: the local path of a listed key.
LocalPath(s3_key) ==
    IF S3_PREFIX # "" /\ StartsWith(s3_key, <<S3_PREFIX, "">>) THEN Tail(s3_key)
    ELSE s3_key

\* The local paths of the model and the keys of the bucket, in the order
\* in which os.walk and list_objects_v2 give them.
LocalPaths ==
    <<<<DATA_DIR, "extra.csv">>, <<DATA_DIR, "housing.csv">>,
      <<OUTPUT_DIR, "plot.png">>, <<OUTPUT_DIR, "report.txt">>>>

Keys == [i \in 1..Len(LocalPaths) |-> S3Key(LocalPaths[i])]

NoObject == ""

\* os.path.exists(local_path)
Exists(files, local_path) == files[local_path] # NoObject

\* paginator.paginate(Bucket=S3_BUCKET, Prefix=prefix): the keys listed.
ListObjects(objects, prefix) ==
    SelectSeq(Keys, LAMBDA k : objects[k] # NoObject /\ StartsWith(k, prefix))

\* os.walk(local_dir): the files below the directory.
Walk(files, local_dir) ==
    SelectSeq(LocalPaths, LAMBDA p : Exists(files, p) /\ p[1] = local_dir)

IdleTool ==
    [name |-> "", pc |-> "idle", todo |-> <<>>, response |-> "", uploaded |-> <<>>,
     exc |-> "", result |-> <<>>, agent_calls |-> 0, calls |-> 0]

NoSupervisor ==
    /\ s3 = [enabled |-> FALSE, objects |-> [k \in Range(Keys) |-> NoObject]]
    /\ localFiles = [p \in Range(LocalPaths) |-> NoObject]
    /\ tool = IdleTool
    /\ events = <<>>

Tools == {"data_engineer", "data_scientist", "visualizer"}

\* The supervisor agent calls one of its three specialist tools.
SupCall(name) ==
    /\ tool.pc = "idle"
    /\ tool.calls < MaxCalls
    /\ tool' = [IdleTool EXCEPT !.name = name, !.pc = "ensure", !.calls = tool.calls + 1]
    /\ events' = <<>>
    /\ UNCHANGED <<s3, localFiles>>
    /\ UNCHANGED <<toolVars, dirs, concVars, deployVars, proc>>

\* An exception raised inside the try block of a tool.
Raise(exc) == tool' = [tool EXCEPT !.pc = "except", !.exc = exc]

\* _ensure_data_local, lines 52 to 62: nothing when S3 is not enabled,
\* else the listing of the objects under the data/ prefix.
EnsureList ==
    /\ tool.pc = "ensure"
    /\ UNCHANGED <<s3, localFiles>>
    /\ UNCHANGED <<toolVars, dirs, concVars, deployVars, proc>>
    /\ IF ~s3.enabled
       THEN /\ tool' = [tool EXCEPT !.pc = "create"]
            /\ UNCHANGED events
       ELSE LET prefix == S3Key(<<DATA_DIR, "">>)
                listed == ListObjects(s3.objects, prefix)
            IN  /\ events' = Append(events, <<"list", prefix>>)
                /\ \E outcome \in {"ok", "raise"} :
                       IF outcome = "raise" THEN Raise("ClientError")
                       ELSE tool' = [tool EXCEPT
                                        !.todo = listed,
                                        !.pc = IF listed = <<>> THEN "create"
                                               ELSE "download"]

\* Variant of NeedsDownload: every listed object is downloaded.
NeedsDownloadAlways(files, local_path) == TRUE

\* _ensure_data_local, line 70.
NeedsDownload(files, local_path) == ~Exists(files, local_path)

\* _ensure_data_local, lines 63 to 72, for the next listed object:
\* download_from_s3 unless a file exists at its local path.  A download
\* that raises leaves no file behind.
EnsureObject ==
    /\ tool.pc = "download"
    /\ UNCHANGED s3
    /\ UNCHANGED <<toolVars, dirs, concVars, deployVars, proc>>
    /\ LET s3_key == Head(tool.todo)
           local_path == LocalPath(s3_key)
           rest == Tail(tool.todo)
           next == [tool EXCEPT !.todo = rest,
                                !.pc = IF rest = <<>> THEN "create" ELSE "download"]
       IN  IF ~NeedsDownload(localFiles, local_path)
           THEN /\ tool' = next
                /\ UNCHANGED <<localFiles, events>>
           ELSE /\ events' = Append(events, <<"download", s3_key>>)
                /\ \E outcome \in {"ok", "raise"} :
                       IF outcome = "raise"
                       THEN /\ Raise("ClientError")
                            /\ UNCHANGED localFiles
                       ELSE /\ tool' = next
                            /\ localFiles' =
                                   [localFiles EXCEPT ![local_path] = s3.objects[s3_key]]

\* create_data_engineer_agent() and its two siblings.
CreateAgent ==
    /\ tool.pc = "create"
    /\ UNCHANGED <<s3, localFiles>>
    /\ UNCHANGED <<toolVars, dirs, concVars, deployVars, proc>>
    /\ events' = Append(events, <<"create", <<tool.name>>>>)
    /\ \E outcome \in {"ok", "raise"} :
           IF outcome = "raise" THEN Raise("RuntimeError")
           ELSE tool' = [tool EXCEPT !.pc = "agent"]

\* Variant of UploadsOutputs: every tool uploads the outputs.
UploadsOutputsAlways(name) == TRUE

\* The tools that call _upload_outputs_to_s3 after the agent (lines 139, 164).
UploadsOutputs(name) == name \in {"data_scientist", "visualizer"}

\* result = agent(task); response = str(result).  The agent may have written
\* a local file before it answers or raises.
AgentCall ==
    /\ tool.pc = "agent"
    /\ UNCHANGED s3
    /\ UNCHANGED <<toolVars, dirs, concVars, deployVars, proc>>
    /\ events' = Append(events, <<"agent", <<tool.name>>>>)
    /\ \E w \in {<<>>} \cup Range(LocalPaths) :
           localFiles' = IF w = <<>> THEN localFiles
                         ELSE [localFiles EXCEPT ![w] = "written"]
    /\ \E outcome \in {"ok", "raise"} :
           IF outcome = "raise"
           THEN tool' = [tool EXCEPT !.pc = "except", !.exc = "ModelError",
                                     !.agent_calls = @ + 1]
           ELSE tool' = [tool EXCEPT
                            !.response = "answer",
                            !.agent_calls = @ + 1,
                            !.pc = IF UploadsOutputs(tool.name) THEN "upload"
                                   ELSE "return"]

\* _upload_outputs_to_s3, lines 77 to 83: nothing when S3 is not enabled,
\* else the walk of OUTPUT_DIR.
UploadList ==
    /\ tool.pc = "upload"
    /\ UNCHANGED <<s3, localFiles, events>>
    /\ UNCHANGED <<toolVars, dirs, concVars, deployVars, proc>>
    /\ IF ~s3.enabled
       THEN tool' = [tool EXCEPT !.pc = "return"]
       ELSE LET files == Walk(localFiles, OUTPUT_DIR)
            IN  tool' = [tool EXCEPT
                            !.todo = files,
                            !.pc = IF files = <<>> THEN "return" ELSE "uploading"]

\* upload_directory_to_s3, lines 50 to 54, for the next file.
UploadObject ==
    /\ tool.pc = "uploading"
    /\ UNCHANGED localFiles
    /\ UNCHANGED <<toolVars, dirs, concVars, deployVars, proc>>
    /\ LET local_path == Head(tool.todo)
           relative == Tail(local_path)
           s3_key == Join(S3Key(<<OUTPUT_DIR, "">>), relative)
           rest == Tail(tool.todo)
       IN  /\ events' = Append(events, <<"upload", s3_key>>)
           /\ \E outcome \in {"ok", "raise"} :
                  IF outcome = "raise"
                  THEN /\ Raise("S3UploadFailedError")
                       /\ UNCHANGED s3
                  ELSE /\ s3' = [s3 EXCEPT !.objects[s3_key] = localFiles[local_path]]
                       /\ tool' = [tool EXCEPT
                                      !.todo = rest,
                                      !.uploaded = Append(@, s3_key),
                                      !.pc = IF rest = <<>> THEN "return"
                                             ELSE "uploading"]

\* The value a tool returns from its try block: the agent's response, and
\* the note on the uploaded keys when there are any.
ToolValue(response, uploaded) ==
    IF uploaded # <<>>
    THEN <<response, "\n\n[S3] Uploaded ", Len(uploaded), " file(s): ", uploaded>>
    ELSE <<response>>

ToolReturn ==
    /\ tool.pc = "return"
    /\ tool' = [tool EXCEPT !.pc = "idle",
                            !.result = ToolValue(tool.response, tool.uploaded)]
    /\ UNCHANGED <<s3, localFiles, events>>
    /\ UNCHANGED <<toolVars, dirs, concVars, deployVars, proc>>

\* Variant of ToolError: the visualizer reports as the data scientist.
ToolErrorOneLabel(name, exc) ==
    <<IF name = "data_engineer" THEN "[Data Engineer error] "
      ELSE "[Data Scientist error] ", exc>>

\* The value of the except Exception branch of a tool.
ToolError(name, exc) ==
    <<IF name = "data_engineer" THEN "[Data Engineer error] "
      ELSE IF name = "data_scientist" THEN "[Data Scientist error] "
      ELSE "[Visualizer error] ", exc>>

ToolExcept ==
    /\ tool.pc = "except"
    /\ tool' = [tool EXCEPT !.pc = "idle", !.result = ToolError(tool.name, tool.exc)]
    /\ UNCHANGED <<s3, localFiles, events>>
    /\ UNCHANGED <<toolVars, dirs, concVars, deployVars, proc>>

(***************************************************************************)
(* Input files.                                                            *)
(***************************************************************************)
Headers == {<<"a">>, <<"">>, <<"a", "b">>, <<"a", "a">>, <<"", "a">>}

\* Cells an input file can hold in column j: numbers in the odd columns,
\* text in the even ones, an empty field anywhere.
CellDomain(j) == IF j % 2 = 1 THEN {NaN, V(1), V(2)} ELSE {NaN, Str("x")}

RECURSIVE RowDomain(_)
RowDomain(k) ==
    IF k = 0 THEN {<<>>}
    ELSE {Append(r, c) : r \in RowDomain(k - 1), c \in CellDomain(k)}

RECURSIVE TablesOf(_, _)
TablesOf(k, n) ==
    IF n = 0 THEN {<<>>}
    ELSE {Append(t, r) : t \in TablesOf(k, n - 1), r \in RowDomain(k)}

InputTables(k) == UNION {TablesOf(k, n) : n \in 0..MaxRows}

SmallFiles == UNION {{CsvFile(h, t, 0) : t \in InputTables(Len(h))} : h \in Headers}

\* A long table of one numeric column holding 1, 2, ..., n.
RampFile(n) == CsvFile(<<"a">>, [i \in 1..n |-> <<V(i)>>], 0)

\* A table of n rows (r, "x") in which row k repeats row i and, when m > 0,
\* the field of column t in row m is empty.
DupFile(n, i, k, m, t) ==
    LET base == [r \in 1..n |-> <<V(IF r = k THEN i ELSE r), Str("x")>>]
    IN  CsvFile(<<"a", "b">>,
                [r \in 1..n |-> IF r = m THEN [base[r] EXCEPT ![t] = NaN] ELSE base[r]],
                0)

DupFiles ==
    {DupFile(ScenarioLen, ik[1], ik[2], mt[1], mt[2]) :
        ik \in {<<1, 2>>, <<2, ScenarioLen>>},
        mt \in {<<0, 1>>, <<5, 1>>, <<5, 2>>}}

\* A table whose only column is text.
TextFile == CsvFile(<<"b">>, <<<<Str("x")>>, <<Str("y")>>>>, 0)

InputFiles ==
    SmallFiles \cup {RampFile(RampLen - 2), RampFile(RampLen)} \cup {NoFile, Garbage}
        \cup DupFiles \cup {TextFile}

NoCall ==
    [op |-> "none", file_path |-> NoPath, output_path |-> NoPath,
     input |-> NoFile, fault |-> "none", deduped |-> <<>>]

Init ==
    /\ fs \in {[p \in Paths |-> IF p = RawPath THEN f ELSE NoFile] : f \in InputFiles}
    /\ dirs = {"."}
    /\ call = NoCall
    /\ ret = <<>>
    /\ raised = FALSE
    /\ NoCallers
    /\ NoDeploy
    /\ NoProc
    /\ NoSupervisor

Next ==
    \/ \E p \in Paths : ProfileData(p)
    \/ \E p \in Paths : CheckMissing(p)
    \/ \E p \in Paths, q \in Paths : CleanData(p, q)

Spec == Init /\ [][Next]_vars

(***************************************************************************)
(* Two callers running clean_data at the same time, step by step.          *)
(***************************************************************************)
ConcInit ==
    /\ fs = [p \in Paths |-> NoFile]
    /\ call = NoCall
    /\ ret = <<>>
    /\ raised = FALSE
    /\ dirs = {"."}
    /\ \E f1 \in ConcFiles(1), f2 \in ConcFiles(2) :
           disk = [p \in ConcPaths |->
                      IF p = In1 THEN f1 ELSE IF p = In2 THEN f2 ELSE Absent]
    /\ pc = [c \in Callers |-> "read"]
    /\ \E q2 \in {Out1, Out2} :
           job = [c \in Callers |->
                     [IdleJob EXCEPT !.file_path = IF c = 1 THEN In1 ELSE In2,
                                     !.output_path = IF c = 1 THEN Out1 ELSE q2]]
    /\ order = <<>>
    /\ NoDeploy
    /\ NoProc
    /\ NoSupervisor

ConcNext ==
    \/ \E c \in Callers : ConcRead(c)
    \/ \E c \in Callers : ConcMakeDirs(c)
    \/ \E c \in Callers : ConcOpen(c)
    \/ \E c \in Callers : ConcWrite(c)
    \/ \E c \in Callers : ConcReturn(c)

SpecConc == ConcInit /\ [][ConcNext]_vars

(***************************************************************************)
(* The deploy scripts, run one after another in any order.                 *)
(***************************************************************************)
DeployInit ==
    /\ fs = [p \in Paths |-> NoFile]
    /\ call = NoCall
    /\ ret = <<>>
    /\ raised = FALSE
    /\ dirs = {"."}
    /\ NoCallers
    /\ envFile \in InitialEnvFiles
    /\ aws = NoAws
    /\ host \in [housing : BOOLEAN, docker : BOOLEAN, toolkit : BOOLEAN]
    /\ runs = <<>>
    /\ NoProc
    /\ NoSupervisor

DeployNext ==
    \/ DeployIamRole
    \/ DeployCognito
    \/ DeployCodeInterpreter
    \/ DeployRuntime
    \/ GenerateDataset

SpecDeploy == DeployInit /\ [][DeployNext]_vars

(***************************************************************************)
(* One deploy script run step by step, on a machine where nothing or the   *)
(* Code Interpreters have been deployed.  A script that has been started   *)
(* keeps running: its steps are weakly fair in SpecPollFair.               *)
(***************************************************************************)
DeployedIds ==
    [n \in Range(INTERPRETERS) |->
        IF n = INTERPRETERS[1] THEN InterpreterId(1) ELSE InterpreterId(2)]

PollInit ==
    /\ fs = [p \in Paths |-> NoFile]
    /\ call = NoCall
    /\ ret = <<>>
    /\ raised = FALSE
    /\ dirs = {"."}
    /\ NoCallers
    /\ NoSupervisor
    /\ \/ /\ envFile \in InitialEnvFiles
          /\ aws = NoAws
       \/ /\ envFile = SaveEnv(DeployedIds, RoleArn(CI_ROLE_NAME))
          /\ aws = [NoAws EXCEPT !.roles = {CI_ROLE_NAME},
                                 !.interpreters = DeployedIds,
                                 !.created = Len(INTERPRETERS)]
    /\ host \in [housing : BOOLEAN, docker : BOOLEAN, toolkit : BOOLEAN]
    /\ runs = <<>>
    /\ NoProc

ScriptStep ==
    \/ RtCheck
    \/ RtConfigure
    \/ RtLaunch
    \/ RtPoll
    \/ RtFinish
    \/ CiRole
    \/ CiCreate
    \/ CiPoll
    \/ CiTimeout
    \/ CiSave

PollNext ==
    \/ \E script \in {"deploy_runtime", "deploy_code_interpreter"} : StartScript(script)
    \/ ScriptStep

SpecPoll == PollInit /\ [][PollNext]_vars

SpecPollFair == SpecPoll /\ WF_vars(ScriptStep)

(***************************************************************************)
(* The supervisor calling its specialist tools, one call after another.    *)
(***************************************************************************)
SupInit ==
    /\ fs = [p \in Paths |-> NoFile]
    /\ call = NoCall
    /\ ret = <<>>
    /\ raised = FALSE
    /\ dirs = {"."}
    /\ NoCallers
    /\ NoDeploy
    /\ NoProc
    /\ \E enabled \in BOOLEAN, stored \in SUBSET Range(Keys) :
           s3 = [enabled |-> enabled,
                 objects |-> [k \in Range(Keys) |->
                                 IF enabled /\ k \in stored THEN "stored" ELSE NoObject]]
    /\ \E present \in SUBSET Range(LocalPaths) :
           localFiles = [p \in Range(LocalPaths) |->
                            IF p \in present THEN "local" ELSE NoObject]
    /\ tool = IdleTool
    /\ events = <<>>

SupNext ==
    \/ \E name \in Tools : SupCall(name)
    \/ EnsureList
    \/ EnsureObject
    \/ CreateAgent
    \/ AgentCall
    \/ UploadList
    \/ UploadObject
    \/ ToolReturn
    \/ ToolExcept

SpecSup == SupInit /\ [][SupNext]_vars

(***************************************************************************)
(* Properties.                                                             *)
(***************************************************************************)
IsError(r) == "error" \in DOMAIN r

\* The last call was a clean_data that returned its report.
CleanOk == call.op = "clean_data" /\ ~IsError(ret)

\* The file the last (successful) clean_data wrote.
Written == fs[call.output_path]

\* The DataFrame the last call loaded.
Loaded == ReadCsv(call.input)

\* The last call was a successful clean_data on the output of a clean_data.
SecondRun == CleanOk /\ call.input.gen >= 1

\* C1 (as claimed): after a successful clean no numeric column of the
\* written file has a missing cell, a column whose cells are all missing
\* included.
C1_NoMissingNumericCell ==
    CleanOk =>
        LET out == ReadCsv(Written)
        IN  \A j \in NumericCols(out) : NMissing(out.rows, j) = 0

ColMin(rows, j) == KthSmallest(rows, j, 1)
ColMax(rows, j) == KthSmallest(rows, j, Cardinality(NonNull(rows, j)))
CountOf(rows, j, v) ==
    Cardinality({i \in NonNull(rows, j) : rows[i][j].n = v})
IsInterior(rows, j, i) ==
    /\ ~IsNull(rows[i][j])
    /\ ColMin(rows, j) < rows[i][j].n
    /\ rows[i][j].n < ColMax(rows, j)

\* C2 (as claimed): capping is idempotent, a second clean run on the output
\* of a first one changes no value and reports capped_outliers = {}.
C2_SecondRunCapsNothing ==
    SecondRun =>
        /\ DOMAIN ret.capped_outliers = {}
        /\ Written.rows = call.deduped

\* C2 (amended): a second clean run that removes no duplicate row, so that
\* step 3 runs on the columns as the first run capped them, changes no value
\* strictly between a column's minimum and maximum; and it leaves alone (no
\* entry, no change) a column of at most 100 rows whose minimum and maximum
\* each occur at least twice.  A unique minimum or maximum is clipped again.
C2_SecondRunMovesOnlyBounds ==
    (SecondRun /\ ret.duplicates_removed = 0) =>
        \A j \in NumericCols(Loaded) :
            LET rows == call.deduped
                n == Cardinality(NonNull(rows, j))
            IN  /\ \A i \in 1..Len(rows) :
                       IsInterior(rows, j, i) => Written.rows[i][j] = rows[i][j]
                /\ ( /\ n > 0
                     /\ (n - 1) * QLow < 100
                     /\ CountOf(rows, j, ColMin(rows, j)) >= 2
                     /\ CountOf(rows, j, ColMax(rows, j)) >= 2 )
                   => /\ Loaded.columns[j] \notin DOMAIN ret.capped_outliers
                      /\ \A i \in 1..Len(rows) : Written.rows[i][j] = rows[i][j]

\* C2 witness: a second run without duplicates caps a column again while the
\* column holds values strictly inside its range.
C2_Witness ==
    /\ SecondRun
    /\ ret.duplicates_removed = 0
    /\ DOMAIN ret.capped_outliers # {}
    /\ \E j \in NumericCols(Loaded), i \in 1..Len(call.deduped) :
           IsInterior(call.deduped, j, i)

\* C3 (as claimed): a second clean run on the output of a first one reports
\* duplicates_removed = 0.
C3_SecondRunRemovesNothing ==
    SecondRun => ret.duplicates_removed = 0

\* C3 (amended): two rows of the file written by clean are identical only if
\* step 3 changed at least one of them (the rows capping left unchanged are
\* pairwise distinct); a second clean run reports as duplicates_removed the
\* number of rows of the first run's output that repeat an earlier row.
C3_RepeatedRowsOnlyFromCapping ==
    /\ CleanOk =>
          /\ Len(Written.rows) = Len(call.deduped)
          /\ \A i, k \in 1..Len(Written.rows) :
                 (i < k /\ Written.rows[i] = Written.rows[k]) =>
                     \/ Written.rows[i] # call.deduped[i]
                     \/ Written.rows[k] # call.deduped[k]
    /\ SecondRun =>
          ret.duplicates_removed =
              Len(call.input.rows) - Cardinality(Range(call.input.rows))

\* C3 witness: a second run that does remove rows which capping made equal.
C3_Witness == SecondRun /\ ret.duplicates_removed > 0

\* C4 (as claimed): a second clean run on the output of a first one reports
\* filled_missing = {}.
C4_SecondRunFillsNothing ==
    SecondRun => DOMAIN ret.filled_missing = {}

\* C5: after clean every value of a numeric column lies within [p1, p99],
\* the 1st and 99th percentile of the column after imputation and
\* de-duplication and before capping, and a value that was inside that range
\* is written unchanged.
C5_CappedWithinPercentiles ==
    CleanOk =>
        /\ Len(Written.rows) = Len(call.deduped)
        /\ \A j \in NumericCols(Loaded) :
               LET p1 == Quantile(call.deduped, j, QLow)
                   p99 == Quantile(call.deduped, j, QHigh)
               IN  \A i \in 1..Len(call.deduped) :
                       LET old == call.deduped[i][j]
                           new == Written.rows[i][j]
                       IN  IF IsNull(old) THEN IsNull(new)
                           ELSE /\ ~IsNull(new)
                                /\ p1.n <= new.n /\ new.n <= p99.n
                                /\ (p1.n <= old.n /\ old.n <= p99.n) => new = old

\* C5 witness: a clean that capped a column.
C5_Witness == CleanOk /\ DOMAIN ret.capped_outliers # {}

\* C6: the written file has at most the input's rows, cleaned_rows is the
\* number of rows written and equals original_rows - duplicates_removed.
C6_RowCountAccounting ==
    CleanOk =>
        /\ Len(Written.rows) <= Len(call.input.rows)
        /\ ret.original_rows = Len(call.input.rows)
        /\ ret.cleaned_rows = Len(Written.rows)
        /\ ret.cleaned_rows = ret.original_rows - ret.duplicates_removed

\* C6 witness: a clean that removed duplicate rows.
C6_Witness == CleanOk /\ ret.duplicates_removed > 0 /\ ret.cleaned_rows > 0

\* C7 (as claimed): the header written by clean is the input's header, also
\* with repeated or empty column names.
C7_HeaderPreserved ==
    CleanOk => Written.header = call.input.header

\* What profile_data returns for the file the last call read.
ProfileOfInput == ProfileOutcome(call.file_path, call.input).ret

\* C8 (as claimed): check_missing and profile report the same columns, the
\* same missing counts and the same row count for the same file.
C8_MissingCountsAgree ==
    call.op = "check_missing" =>
        IF IsError(ProfileOfInput) THEN IsError(ret)
        ELSE /\ ~IsError(ret)
             /\ DOMAIN ret.missing_by_column = DOMAIN ProfileOfInput.missing_counts
             /\ \A c \in DOMAIN ret.missing_by_column :
                    ret.missing_by_column[c].missing_count
                        = ProfileOfInput.missing_counts[c]
             /\ ret.total_rows = ProfileOfInput.rows

\* C9 (as claimed): check_missing returns an error result exactly when
\* profile does, a header-only file included.
C9_SameErrorContract ==
    call.op = "check_missing" => (IsError(ret) <=> IsError(ProfileOfInput))

\* A stage of the last call failed.
Failed ==
    \/ call.input.kind # "csv"
    \/ call.fault # "none"
    \/ call.op = "check_missing" /\ Len(call.input.rows) = 0

ReportKeys(op) ==
    IF op = "profile_data"
    THEN {"file", "rows", "columns", "column_names", "dtypes", "missing_counts",
          "missing_pct", "statistics"}
    ELSE IF op = "check_missing"
    THEN {"file", "total_rows", "missing_by_column"}
    ELSE {"input_file", "output_file", "original_rows", "filled_missing",
          "duplicates_removed", "capped_outliers", "cleaned_rows"}

\* C10: the three tools never raise; a failure at any stage gives a result
\* whose only key is "error", no failure gives the full report, and a
\* nonexistent input path gives an error result.
C10_NeverRaises ==
    call.op # "none" =>
        /\ ~raised
        /\ Failed => DOMAIN ret = {"error"}
        /\ ~Failed => DOMAIN ret = ReportKeys(call.op)
        /\ call.input.kind = "absent" => DOMAIN ret = {"error"}

\* C10 witness: a clean whose output write failed returned an error result.
C10_Witness ==
    call.op = "clean_data" /\ call.fault = "write" /\ DOMAIN ret = {"error"}

\* What a file holds, apart from the count of the passes that produced it.
Content(f) == [kind |-> f.kind, header |-> f.header, rows |-> f.rows]

\* C11 (as claimed): after any clean call, also one whose output_path is its
\* input path, the file at the input path holds what it held before the call.
C11_InputNeverMutated ==
    call.op = "clean_data" => Content(fs[call.file_path]) = Content(call.input)

ReadOnlyOps == {"profile_data", "check_missing"}

\* C12: a profile or check_missing call, successful or failing, changes no
\* file and no directory, and repeating the call on the unchanged file
\* returns the same result.
C12_ReadOnlyAndStateless ==
    [][call'.op \in ReadOnlyOps =>
          /\ fs' = fs
          /\ dirs' = dirs
          /\ (call.op = call'.op /\ call.file_path = call'.file_path) =>
                 (ret' = ret /\ raised' = raised)]_vars

\* C12 witness: a failing check_missing and nothing but the two files a
\* clean left behind.
C12_Witness ==
    /\ call.op = "check_missing"
    /\ IsError(ret)
    /\ call.file_path = OutPath
    /\ fs[OutPath].kind = "csv"
    /\ dirs = {".", "out"}

\* The number of rows of a table that repeat an earlier row.
Repeats(rows) == Len(rows) - Cardinality(Range(rows))

\* The input rows of the last clean after step 1.
Imputed == Impute(Loaded)

\* C13 (as claimed): duplicates_removed is the number of input rows that
\* repeat an earlier input row, whatever cells are missing; an input without
\* repeated rows gives 0 and cleaned_rows = original_rows.
C13_CountsInputDuplicates ==
    CleanOk =>
        /\ ret.duplicates_removed = Repeats(call.input.rows)
        /\ Repeats(call.input.rows) = 0 => ret.cleaned_rows = ret.original_rows

\* C13 (amended): duplicates_removed is the number of rows that repeat an
\* earlier row after step 1 filled the missing numeric cells; it is at least
\* the number of repeated input rows and equal to it when no numeric column
\* of the input has a missing cell.
C13_CountsDuplicatesAfterImpute ==
    CleanOk =>
        /\ ret.duplicates_removed = Repeats(Imputed)
        /\ ret.duplicates_removed >= Repeats(call.input.rows)
        /\ ret.cleaned_rows = ret.original_rows - Repeats(Imputed)
        /\ (\A j \in NumericCols(Loaded) : NMissing(call.input.rows, j) = 0)
               => ret.duplicates_removed = Repeats(call.input.rows)

\* C13 witness: ten rows with one repeated row, not next to its original,
\* and a filled cell; two rows are removed.
C13_Witness ==
    /\ CleanOk
    /\ ret.original_rows = ScenarioLen
    /\ Repeats(call.input.rows) = 1
    /\ call.input.rows[1] # call.input.rows[2]
    /\ DOMAIN ret.filled_missing # {}
    /\ ret.duplicates_removed > 1

\* The positions of the rows that repeat no earlier row, and the n-th of
\* them.
FirstOccurrences(rows) ==
    {i \in 1..Len(rows) : \A k \in 1..(i - 1) : rows[k] # rows[i]}
NthOf(S, n) == CHOOSE x \in S : Cardinality({y \in S : y < x}) = n - 1

\* C14: the rows that survive step 2 are the first occurrences, in their
\* original order, and they are written in that order (step 3 changes values
\* of numeric columns only, never the order or the text).
C14_KeepsFirstInOrder ==
    CleanOk =>
        LET firsts == FirstOccurrences(Imputed)
        IN  /\ Len(call.deduped) = Cardinality(firsts)
            /\ \A n \in 1..Len(call.deduped) :
                   call.deduped[n] = Imputed[NthOf(firsts, n)]
            /\ Len(Written.rows) = Len(call.deduped)
            /\ \A n \in 1..Len(call.deduped), j \in ColIdx(Loaded) :
                   \/ Written.rows[n][j] = call.deduped[n][j]
                   \/ /\ Loaded.numeric[j]
                      /\ Written.rows[n][j] \in
                             {Quantile(call.deduped, j, QLow),
                              Quantile(call.deduped, j, QHigh)}

\* C14 witness: a removed row whose first occurrence is followed by other
\* rows that stay.
C14_Witness ==
    /\ CleanOk
    /\ ret.original_rows <= ScenarioLen
    /\ \E i, k, l \in 1..Len(Imputed) :
           /\ i < k /\ k < l
           /\ Imputed[i] = Imputed[l]
           /\ Imputed[k] # Imputed[i]
           /\ k \in FirstOccurrences(Imputed)

\* m is a median of the non-missing values of column j: a number with at
\* most half of the values below it and at most half above it, the middle
\* value or the mean of the two middle values.
IsMedianOf(m, rows, j) ==
    LET idx == NonNull(rows, j)
        n == Cardinality(idx)
    IN  /\ m.t = "num"
        /\ n > 0
        /\ 2 * Cardinality({i \in idx : rows[i][j].n < m.n}) <= n
        /\ 2 * Cardinality({i \in idx : rows[i][j].n > m.n}) <= n
        /\ \/ \E i \in idx : rows[i][j].n = m.n
           \/ \E i, k \in idx : rows[i][j].n + rows[k][j].n = 2 * m.n

\* C15 (as claimed): filled_missing has an entry for exactly the numeric
\* columns with a missing input cell; filled_count is the number of missing
\* cells, fill_value the median of the non-missing input values (reported
\* to 4 decimals), and every missing cell of the column holds that median
\* after step 1.
C15_FilledWithMedian ==
    CleanOk =>
        LET in == call.input.rows
            need == {j \in NumericCols(Loaded) : NMissing(in, j) > 0}
        IN  /\ DOMAIN ret.filled_missing = {Loaded.columns[j] : j \in need}
            /\ \A j \in need :
                   LET e == ret.filled_missing[Loaded.columns[j]]
                   IN  /\ e.filled_count = NMissing(in, j)
                       /\ \E m \in {Imputed[i][j] : i \in 1..Len(in)} :
                              /\ IsMedianOf(m, in, j)
                              /\ e.fill_value = Round4(m)
                              /\ \A i \in 1..Len(in) :
                                     IsNull(in[i][j]) => Imputed[i][j] = m

\* The rows of a table whose value in column j is strictly below lo or
\* strictly above hi.
Outside(rows, j, lo, hi) ==
    {i \in NonNull(rows, j) : rows[i][j].n < lo.n \/ rows[i][j].n > hi.n}

\* C16: capped_outliers has an entry for exactly the numeric columns with a
\* value, after steps 1 and 2, strictly below p1 or strictly above p99;
\* capped_count is the number of such values, lower and upper are p1 and p99
\* to 4 decimals; a column without such a value has no entry and is written
\* unchanged.
C16_CappedOutliersReport ==
    CleanOk =>
        LET rows == call.deduped
            P1(j) == Quantile(rows, j, QLow)
            P99(j) == Quantile(rows, j, QHigh)
            out(j) == IF IsNull(P1(j)) THEN {} ELSE Outside(rows, j, P1(j), P99(j))
            hit == {j \in NumericCols(Loaded) : out(j) # {}}
        IN  /\ DOMAIN ret.capped_outliers = {Loaded.columns[j] : j \in hit}
            /\ \A j \in hit :
                   LET e == ret.capped_outliers[Loaded.columns[j]]
                   IN  /\ e.capped_count = Cardinality(out(j))
                       /\ e.lower = Round4(P1(j))
                       /\ e.upper = Round4(P99(j))
            /\ \A j \in ColIdx(Loaded) \ hit :
                   \A i \in 1..Len(rows) : Written.rows[i][j] = rows[i][j]

\* C16 witness: a column with values outside and values inside [p1, p99].
C16_Witness ==
    /\ CleanOk
    /\ \E c \in DOMAIN ret.capped_outliers :
           /\ ret.capped_outliers[c].capped_count >= 2
           /\ ret.capped_outliers[c].capped_count < Len(call.deduped)
           /\ ret.capped_outliers[c].lower # ret.capped_outliers[c].upper

\* C17 (as claimed): every key of profile's statistics is a numeric column
\* of the file, and a file without a numeric column gives statistics = {}.
C17_StatisticsOnlyNumeric ==
    (call.op = "profile_data" /\ ~IsError(ret)) =>
        /\ DOMAIN ret.statistics \subseteq
               {Loaded.columns[j] : j \in NumericCols(Loaded)}
        /\ NumericCols(Loaded) = {} => DOMAIN ret.statistics = {}

\* Both concurrent calls have returned.
AllDone == \A c \in Callers : pc[c] = "done"

\* The two concurrent calls share no path.
DisjointPaths ==
    {job[1].file_path, job[1].output_path} \cap {job[2].file_path, job[2].output_path} = {}

\* What clean_data(p, q) returns and writes when it runs alone on input d.
AloneOutcome(p, q, d) ==
    LET df == ReadCsv(ParseDisk(d))
        imputed == Impute(df)
        deduped == DropDuplicates(imputed)
        capped == CapOutliers(df, deduped)
    IN  IF df.exc # ""
        THEN [ret |-> [error |-> df.exc], file |-> Absent]
        ELSE [ret |-> CleanReport(p, q, df, imputed, deduped, capped),
              file |-> OnDisk(ToCsv(df, capped, 1))]

AloneOf(c) == AloneOutcome(job[c].file_path, job[c].output_path, disk[job[c].file_path])

\* The callers that wrote their whole output, and the positions of a
\* caller's open and of its last write among the recorded events.
Writers == {c \in Callers : \E n \in 1..Len(order) : order[n] = <<"written", c>>}
OpenedAt(c) == CHOOSE n \in 1..Len(order) : order[n] = <<"open", c>>
WrittenAt(c) == CHOOSE n \in 1..Len(order) : order[n] = <<"written", c>>

\* C18: two concurrent clean calls on disjoint paths, under every
\* interleaving of their steps, each return the report and leave the output
\* file they give when run alone.
C18_DisjointCallsAsAlone ==
    (AllDone /\ DisjointPaths) =>
        \A c \in Callers :
            /\ job[c].ret = AloneOf(c).ret
            /\ disk[job[c].output_path] = AloneOf(c).file

\* C18 witness: both calls wrote, into the same directory, and the second
\* opened its file before the first had finished writing.
C18_Witness ==
    /\ AllDone
    /\ DisjointPaths
    /\ Writers = Callers
    /\ order[1][1] = "open" /\ order[2][1] = "open"
    /\ \A c \in Callers : Len(job[c].out) >= 2

\* The caller whose write completed last.
LastWriter == order[Len(order)][2]

WroteAfterOthers(c) ==
    \A o \in Writers \ {c} : WrittenAt(o) < OpenedAt(c)

DocumentedOrder ==
    /\ Len(runs) = 3
    /\ [i \in 1..3 |-> runs[i][1]] =
           <<"deploy_iam_role", "deploy_code_interpreter", "deploy_runtime">>
    /\ runs[1][2] = 0
    /\ runs[2][2] = 0

\* C20 (as claimed): after deploy_iam_role, deploy_code_interpreter and
\* deploy_runtime in this order, the Runtime is configured with the role
\* deploy_iam_role created and wrote to .env, AgentCoreMultiAgentRole.
C20_RuntimeUsesAgentCoreRole ==
    (DocumentedOrder /\ aws.runtime.role # "") =>
        /\ aws.runtime.role = RoleArn(ROLE_NAME)
        /\ GetEnv(envFile, "EXECUTION_ROLE_ARN") = RoleArn(ROLE_NAME)

\* The keys a script writes to .env when it runs to its end.
KeysSetBy(script) ==
    IF script = "deploy_iam_role" THEN {"EXECUTION_ROLE_ARN"}
    ELSE IF script = "deploy_cognito" THEN Range(COGNITO_KEYS)
    ELSE IF script = "deploy_code_interpreter"
    THEN {"REGION", "EXECUTION_ROLE_ARN", "S3_BUCKET", "S3_PREFIX"}
             \cup {InterpreterKey(n) : n \in Range(INTERPRETERS)}
    ELSE IF script = "deploy_runtime" THEN {"AGENT_ARN", "AGENT_ID"}
    ELSE {}

\* The keys written by the scripts that ran to their end so far.
WrittenKeys == UNION {KeysSetBy(runs[i][1]) : i \in {j \in 1..Len(runs) : runs[j][2] = 0}}

\* C21 (as claimed): a run of a deploy script leaves every key written by
\* an earlier script in .env with its value, unless the script sets that
\* key itself.
C21_OtherEntriesPreserved ==
    [][Len(runs') > Len(runs) =>
          \A key \in WrittenKeys \ KeysSetBy(runs'[Len(runs')][1]) :
              GetEnv(envFile', key) = GetEnv(envFile, key)]_vars

\* The positions in the log of the current tool call at which op happened.
EventsOf(op) == {i \in 1..Len(events) : events[i][1] = op}

\* The current tool call has returned to the supervisor agent.
Returned == tool.pc = "idle" /\ tool.name # ""

\* The exceptions of the model by the step that raises them.
DownloadErrors == {"ClientError"}
AgentErrors == {"RuntimeError", "ModelError"}

ListedData == ListObjects(s3.objects, S3Key(<<DATA_DIR, "">>))

\* The steps of _ensure_data_local and of _upload_outputs_to_s3.
InEnsure == tool.pc \in {"ensure", "download"}
InUpload == tool.pc \in {"upload", "uploading"}

\* C23: _ensure_data_local downloads a listed object only when no file is
\* at its local path and leaves every existing local file as it is; when it
\* returns, every listed object has a local file; with S3 disabled neither
\* it nor _upload_outputs_to_s3 touches S3 or a file.
C23_DownloadsOnlyMissing ==
    [][/\ InEnsure =>
             /\ \A p \in Range(LocalPaths) :
                    Exists(localFiles, p) => localFiles'[p] = localFiles[p]
             /\ \A p \in Range(LocalPaths) :
                    localFiles'[p] # localFiles[p] =>
                        \E k \in Range(ListedData) :
                            LocalPath(k) = p /\ localFiles'[p] = s3.objects[k]
             /\ (tool'.pc = "create" /\ s3.enabled) =>
                    \A k \in Range(ListedData) : Exists(localFiles', LocalPath(k))
       /\ ((InEnsure \/ InUpload) /\ ~s3.enabled) =>
             /\ s3' = s3
             /\ localFiles' = localFiles
             /\ events' = events]_vars

\* C23 witness: _ensure_data_local returned having downloaded one listed
\* object and kept the local file of another.
C23_Witness ==
    /\ tool.pc = "create"
    /\ Len(ListedData) = 2
    /\ Cardinality(EventsOf("download")) = 1
    /\ \E k \in Range(ListedData) : localFiles[LocalPath(k)] = "local"
    /\ \E k \in Range(ListedData) : localFiles[LocalPath(k)] = "stored"

\* C24: a tool call always returns a value; when a step raised, the value
\* starts with the error label of the tool; the specialist agent is invoked
\* at most once per call.
C24_ToolsNeverRaise ==
    /\ tool.agent_calls <= 1
    /\ Cardinality(EventsOf("agent")) <= 1
    /\ Returned =>
           /\ tool.result # <<>>
           /\ tool.exc # "" =>
                  tool.result[1] =
                      CASE tool.name = "data_engineer" -> "[Data Engineer error] "
                        [] tool.name = "data_scientist" -> "[Data Scientist error] "
                        [] tool.name = "visualizer" -> "[Visualizer error] "

\* C24 witness: a visualizer call whose upload raised returned the
\* visualizer's error label.
C24_Witness ==
    /\ Returned
    /\ tool.name = "visualizer"
    /\ tool.exc = "S3UploadFailedError"
    /\ tool.agent_calls = 1
    /\ tool.result[1] = "[Visualizer error] "

\* C25 (as claimed): when the agent call of data_scientist or visualizer
\* answered, the value the tool returns starts with the agent's response,
\* followed by the uploaded keys when any were uploaded, also when the
\* upload raised.
C25_ResponseReturned ==
    (Returned /\ tool.name \in {"data_scientist", "visualizer"} /\ tool.response # "") =>
        /\ tool.result[1] = tool.response
        /\ tool.uploaded # <<>> => tool.result[Len(tool.result)] = tool.uploaded

\* deploy_runtime is running, or has run.
InRuntime == proc.script = "deploy_runtime"

\* deploy_runtime is at the test of its wait loop.
InWaitLoop == InRuntime /\ proc.pc = "wait"

\* C26: deploy_runtime changes .env only in the step after its wait loop
\* has ended on READY, and then sets AGENT_ARN and AGENT_ID; when the loop
\* ends on CREATE_FAILED, DELETE_FAILED or UPDATE_FAILED the script exits
\* with status 1 and .env is as before; configure and launch are called
\* only when no prerequisite check failed.
C26_EnvWrittenOnlyWhenReady ==
    [][InRuntime =>
          /\ envFile' # envFile =>
                 /\ InWaitLoop
                 /\ proc.status = "READY"
                 /\ GetEnv(envFile', "AGENT_ARN") # ""
                 /\ GetEnv(envFile', "AGENT_ID") # ""
          /\ (InWaitLoop /\ proc.status \in {"CREATE_FAILED", "DELETE_FAILED", "UPDATE_FAILED"}) =>
                 /\ envFile' = envFile
                 /\ runs' = Append(runs, <<"deploy_runtime", 1>>)
          /\ proc'.calls # proc.calls => ~PrerequisiteErrors]_vars

\* C26 witness: the wait loop ended on UPDATE_FAILED after configure and
\* launch, the script exited with status 1 and .env has no AGENT_ARN.
C26_Witness ==
    /\ InRuntime
    /\ proc.pc = "exit"
    /\ proc.calls = <<"configure", "launch">>
    /\ proc.status = "UPDATE_FAILED"
    /\ runs = <<<<"deploy_runtime", 1>>>>
    /\ GetEnv(envFile, "AGENT_ARN") = ""

\* C27 (as claimed): once launched, deploy_runtime eventually leaves its
\* wait loop with READY or a failed status, whatever the polls observe.
C27_WaitLoopTerminates == InWaitLoop ~> (InRuntime /\ proc.status \in END_STATUSES)

\* deploy_code_interpreter is running, or has run.
InInterpreters == proc.script = "deploy_code_interpreter"

\* C28: create_code_interpreter polls at most 60 times; the id of an
\* interpreter is returned only when a poll observed READY; a poll that
\* observes neither READY nor CREATING raises RuntimeError at once, so that
\* all earlier polls of a loop that goes on observed CREATING; TimeoutError
\* is raised after 60 such polls; .env is saved only when both interpreters
\* were observed READY; and the script always ends.
C28_PollsAtMostSixtyTimes ==
    /\ [](InInterpreters =>
             /\ proc.polls <= 60
             /\ \A n \in Range(INTERPRETERS) : proc.ids[n] # "" => n \in proc.ready
             /\ proc.exc = "RuntimeError" => proc.status \notin {"READY", "CREATING"}
             /\ (proc.pc = "poll" /\ proc.polls > 0) => proc.status = "CREATING"
             /\ proc.exc = "TimeoutError" => (proc.polls = 60 /\ proc.status = "CREATING")
             /\ proc.saved => proc.ready = Range(INTERPRETERS))
    /\ InInterpreters ~> (proc.pc = "exit")

\* C28 witness: the first interpreter was observed READY, the second was
\* CREATING at all 60 polls, TimeoutError ended the script before save_env.
C28_Witness ==
    /\ InInterpreters
    /\ proc.pc = "exit"
    /\ proc.exc = "TimeoutError"
    /\ proc.ready = {INTERPRETERS[1]}
    /\ proc.polls = 60
    /\ ~proc.saved
    /\ runs = <<<<"deploy_code_interpreter", 1>>>>

\* The transformation of the clean call of this step failed: the input
\* could not be loaded (steps 1 to 3 work on the caller's own DataFrame).
TransformationFailed == ReadCsv(call'.input).exc # ""

\* C29: a clean call that returns an error because the loading or a
\* transformation step failed creates no directory and leaves every file,
\* the one at output_path included, as it was; a file or a directory
\* changes only in a clean call whose transformation succeeded, and then
\* only the file at output_path and its parent directory.
C29_WritesOnlyAsLastStep ==
    [][/\ (call'.op = "clean_data" /\ IsError(ret') /\ TransformationFailed) =>
             (fs' = fs /\ dirs' = dirs)
       /\ (fs' # fs \/ dirs' # dirs) =>
             /\ call'.op = "clean_data"
             /\ ~TransformationFailed
             /\ \A p \in Paths \ {call'.output_path} : fs'[p] = fs[p]
             /\ dirs' \subseteq dirs \cup {DirName(call'.output_path)}]_vars

\* C29 witness: a clean call failed to load its input, its output_path
\* names a file that exists, in a directory other than the one a successful
\* call made.
C29_Witness ==
    /\ call.op = "clean_data"
    /\ IsError(ret)
    /\ ReadCsv(call.input).exc # ""
    /\ fs[call.output_path] # NoFile
    /\ DirName(OutPath) \in dirs

====
